---- MODULE Spec2Model ----
(***************************************************************************)
(* Model of process_pdfs.py: the line normalizer (clean_text), the         *)
(* header/footer filter (is_likely_footer_or_header and the second pass of *)
(* get_document_lines_and_features), the heading scorer                    *)
(* (score_line_as_heading), title selection and hierarchy building         *)
(* (analyze_document_structure, find_fallback_title), and the per-document *)
(* orchestration with its batch loop (process_pdf, __main__).              *)
(*                                                                         *)
(* Text is a sequence of one-character strings.  Scores are fixed-point:   *)
(* a score s of the program is the integer 40 * s, which keeps every sum   *)
(* and the factors 0.3 and 1.5 exact.  Coordinates are integers.           *)
(***************************************************************************)
EXTENDS Integers, Sequences, FiniteSets, TLC

VARIABLES
    norm_history,       \* clean_text: the input followed by each successive result
    pages,              \* extraction: doc, page index -> [height, lines]
    raw_lines_by_page,  \* extraction: page index -> sequence of line dicts
    all_lines,          \* extraction: references <<page, position>> to the kept dicts
    doc_features,       \* extraction: body_size / body_font
    ext_pc,             \* extraction: "ready" or "done"
    lines,              \* analysis: the line sequence given to analyze_document_structure
    features,           \* analysis: doc_features given to analyze_document_structure
    pc,                 \* analysis: "ready" or "done"
    line_scores,        \* analysis: (score, is_title_candidate) computed for each index
    scored_lines,       \* analysis: indexes with score > 3.0, in document order
    title_sl,           \* analysis: index of the title candidate chosen, 0 if none
    outline_candidates, \* analysis: indexes left after title removal
    title_text,         \* analysis: returned title
    outline,            \* analysis: returned outline
    outline_lines,      \* analysis: for each outline entry, the index of its line
    files,              \* batch: sorted directory listing
    next_file,          \* batch: position of the loop in files
    outputs,            \* batch: the files written, in order, [path, result]
    batch_pc            \* batch: "running", "finished", or "aborted" by an exception

normVars == <<norm_history>>
extVars == <<pages, raw_lines_by_page, all_lines, doc_features, ext_pc>>
anaVars == <<lines, features, pc, line_scores, scored_lines, title_sl,
             outline_candidates, title_text, outline, outline_lines>>
batchVars == <<files, next_file, outputs, batch_pc>>
vars == <<norm_history, pages, raw_lines_by_page, all_lines, doc_features, ext_pc,
          lines, features, pc, line_scores, scored_lines, title_sl,
          outline_candidates, title_text, outline, outline_lines, files, next_file, outputs, batch_pc>>

----------------------------------------------------------------------------
(* Bounds *)

MaxStrLen == 8
MaxApplications == 2

----------------------------------------------------------------------------
(* Characters and strings *)

Whitespace == {" ", "\t", "\n"}
Digits == {"0", "1", "2", "3", "4", "5", "6", "7", "8", "9"}
UpperCase == {"A", "B", "C", "D", "E", "F", "G", "H", "I", "J", "K", "L", "M",
              "N", "O", "P", "Q", "R", "S", "T", "U", "V", "W", "X", "Y", "Z"}
LowerCase == {"a", "b", "c", "d", "e", "f", "g", "h", "i", "j", "k", "l", "m",
              "n", "o", "p", "q", "r", "s", "t", "u", "v", "w", "x", "y", "z"}

Letters == UpperCase \cup LowerCase

Min(S) == CHOOSE x \in S : \A y \in S : x <= y
Max(S) == CHOOSE x \in S : \A y \in S : x >= y

\* The value of Body at v, with v evaluated once.
Let(v, Body(_)) == CHOOSE r \in {Body(x) : x \in {v}} : TRUE

\* Least position j >= i whose character is outside C, Len(s) + 1 if none.
RECURSIVE SkipWhile(_, _, _)
SkipWhile(s, i, C) ==
    IF i > Len(s) \/ s[i] \notin C THEN i ELSE SkipWhile(s, i + 1, C)

\* Least position j >= i whose character is in C, Len(s) + 1 if none.
RECURSIVE SkipUntil(_, _, _)
SkipUntil(s, i, C) ==
    IF i > Len(s) \/ s[i] \in C THEN i ELSE SkipUntil(s, i + 1, C)

\* Greatest position j <= i whose character is outside C, 0 if none.
RECURSIVE SkipBackWhile(_, _, _)
SkipBackWhile(s, i, C) ==
    IF i < 1 \/ s[i] \notin C THEN i ELSE SkipBackWhile(s, i - 1, C)

\* str.strip(): drop leading and trailing whitespace.
Strip(s) == SubSeq(s, SkipWhile(s, 1, Whitespace), SkipBackWhile(s, Len(s), Whitespace))

\* re.sub(r'\s+', ' ', text): every whitespace run becomes one space.
RECURSIVE CollapseWhitespace(_)
CollapseWhitespace(s) ==
    IF s = <<>> THEN <<>>
    ELSE IF s[1] \in Whitespace
         THEN <<" ">> \o CollapseWhitespace(SubSeq(s, SkipWhile(s, 1, Whitespace), Len(s)))
         ELSE <<s[1]>> \o CollapseWhitespace(Tail(s))

\* Whether the whole of t matches \s*\.{3,}\s*\d+\s* (the classes are
\* disjoint, so the greedy parse is the only one).
MatchesLeader(t) ==
    Let(SkipWhile(t, 1, Whitespace), LAMBDA dots :
    Let(SkipWhile(t, dots, {"."}), LAMBDA gap :
        /\ gap - dots >= 3
        /\ Let(SkipWhile(t, gap, Whitespace), LAMBDA num :
           Let(SkipWhile(t, num, Digits), LAMBDA rest :
               /\ rest - num >= 1
               /\ SkipWhile(t, rest, Whitespace) = Len(t) + 1))))

\* The least position from which s matches the leader pattern to its end,
\* Len(s) + 1 if there is none.
RECURSIVE LeaderStart(_, _)
LeaderStart(s, i) ==
    IF i > Len(s) \/ MatchesLeader(SubSeq(s, i, Len(s))) THEN i ELSE LeaderStart(s, i + 1)

\* re.sub(r'\s*\.{3,}\s*\d+\s*$', '', text): the leftmost match, which runs
\* to the end of the string, is removed; nothing else can match after it.
StripLeader(s) == SubSeq(s, 1, LeaderStart(s, 1) - 1)

clean_text(text) == StripLeader(Strip(CollapseWhitespace(text)))

----------------------------------------------------------------------------
(* Specification of the normalizer: clean_text applied repeatedly *)

Alphabet == {"a", " ", ".", "1"}
Strings(n) == UNION {[1..k -> Alphabet] : k \in 0..n}

NormIdle == norm_history = <<>>

CleanText ==
    /\ norm_history # <<>>
    /\ Len(norm_history) <= MaxApplications
    /\ norm_history' = Append(norm_history, clean_text(norm_history[Len(norm_history)]))
    /\ UNCHANGED <<extVars, anaVars, batchVars>>

----------------------------------------------------------------------------
(* Text predicates used by the heading scorer *)

UpperSeq == <<"A", "B", "C", "D", "E", "F", "G", "H", "I", "J", "K", "L", "M",
              "N", "O", "P", "Q", "R", "S", "T", "U", "V", "W", "X", "Y", "Z">>
LowerSeq == <<"a", "b", "c", "d", "e", "f", "g", "h", "i", "j", "k", "l", "m",
              "n", "o", "p", "q", "r", "s", "t", "u", "v", "w", "x", "y", "z">>

\* The lower-case letter of each upper-case one.
LowerMap == [c \in UpperCase |-> LowerSeq[CHOOSE k \in 1..26 : UpperSeq[k] = c]]

\* str.lower() on one character.
LowerChar(c) == IF c \in UpperCase THEN LowerMap[c] ELSE c

\* str.lower()
Lower(s) == [j \in 1..Len(s) |-> LowerChar(s[j])]

\* sub in s
Contains(sub, s) ==
    \E i \in 1..(Len(s) - Len(sub) + 1) : SubSeq(s, i, i + Len(sub) - 1) = sub

\* s.startswith(prefix)
StartsWith(s, prefix) ==
    Len(s) >= Len(prefix) /\ SubSeq(s, 1, Len(prefix)) = prefix

\* len(text.split()): the number of maximal runs of non-whitespace.
WordCount(s) ==
    Cardinality({j \in 1..Len(s) :
        s[j] \notin Whitespace /\ (j = 1 \/ s[j - 1] \in Whitespace)})

\* text.split(): the maximal runs of non-whitespace, in order.
RECURSIVE Split(_)
Split(s) ==
    LET start == SkipWhile(s, 1, Whitespace)
        stop == SkipUntil(s, start, Whitespace)
    IN  IF start > Len(s) THEN <<>>
        ELSE <<SubSeq(s, start, stop - 1)>> \o Split(SubSeq(s, stop, Len(s)))

\* ' '.join(words)
RECURSIVE Join(_)
Join(words) ==
    IF words = <<>> THEN <<>>
    ELSE IF Len(words) = 1 THEN words[1]
    ELSE words[1] \o <<" ">> \o Join(Tail(words))

\* text.isupper(): some cased character, and no lower-case one.
IsUpper(s) ==
    /\ \E j \in 1..Len(s) : s[j] \in UpperCase
    /\ \A j \in 1..Len(s) : s[j] \notin LowerCase

\* any(char.isalpha() for char in text)
HasAlpha(s) == \E j \in 1..Len(s) : s[j] \in Letters

\* The characters of the class in re.match(r'^[...-]', text): the three
\* characters U+00E2, U+20AC, U+00A2 (written here by code point) and '-'.
BulletMarkers == {"U+00E2", "U+20AC", "U+00A2", "-"}
IsBullet(s) == s # <<>> /\ s[1] \in BulletMarkers

RomanChars == {"I", "V", "X", "L", "C", "D", "M"}
Appendix == <<"A", "p", "p", "e", "n", "d", "i", "x">>
Chapter == <<"C", "h", "a", "p", "t", "e", "r">>

\* (Appendix|Chapter)\s+[A-Z0-9\s:] after the keyword kw: at least one
\* whitespace, then a character of the class; the class holds whitespace,
\* so a run of two whitespace characters is enough.
KeywordNumbering(s, kw) ==
    /\ StartsWith(s, kw)
    /\ LET from == Len(kw) + 1
           after == SkipWhile(s, from, Whitespace)
       IN  \/ after - from >= 2
           \/ /\ after - from = 1
              /\ after <= Len(s)
              /\ s[after] \in UpperCase \cup Digits \cup {":"}

\* re.match(r'^((\d{1,2}(\.\d{1,2})*)|(Appendix|Chapter)\s+[A-Z0-9\s:]|([IVXLCDM]+\.))', text)
IsNumbered(s) ==
    \/ s # <<>> /\ s[1] \in Digits
    \/ KeywordNumbering(s, Appendix)
    \/ KeywordNumbering(s, Chapter)
    \/ LET after == SkipWhile(s, 1, RomanChars)
       IN  after > 1 /\ after <= Len(s) /\ s[after] = "."

Bold == <<"b", "o", "l", "d">>

\* 'bold' in font.lower()
IsBoldFont(font) == Contains(Bold, Lower(font))

----------------------------------------------------------------------------
(* Heading scorer.  A line is [text, style, page_num, bbox]; style is      *)
(* <<size, font>>; scores are 40 times the program's.                      *)

Threshold == 120        \* 3.0
BoldBonus == 160        \* 4.0
CapsBonus == 60         \* 1.5
NumberingBonus == 320   \* 8.0
PageTopBonus == 80      \* 2.0
SizeFactor == 80        \* 2.0 per point of size above the body size

\* The strong rejections at the head of score_line_as_heading.
IsRejected(text) ==
    Let(WordCount(text), LAMBDA word_count :
        \/ word_count > 15
        \/ word_count = 0
        \/ text # <<>> /\ text[Len(text)] = "." /\ word_count > 3
        \/ IsBullet(text)
        \/ ~HasAlpha(text)
        \/ word_count = 1 /\ Len(text) > 25)

\* prev_line and line['page_num'] != prev_line['page_num']
IsPageTop(line, all_lines_, index) ==
    index > 1 /\ line.page_num # all_lines_[index - 1].page_num

\* prev_line and next_line and prev_line['style'] == style == next_line['style']
IsSurrounded(line, all_lines_, index) ==
    /\ index > 1
    /\ index < Len(all_lines_)
    /\ all_lines_[index - 1].style = line.style
    /\ line.style = all_lines_[index + 1].style

\* The score of a non-rejected line, given whether the page-top bonus applies.
ScoreGiven(line, features_, all_lines_, index, page_top) ==
    Let(IsNumbered(line.text), LAMBDA numbered :
        LET text == line.text
            size == line.style[1]
            font == line.style[2]
            additive ==
                  (IF size > features_.body_size + 1
                   THEN (size - features_.body_size) * SizeFactor ELSE 0)
                + (IF IsBoldFont(font) THEN BoldBonus ELSE 0)
                + (IF IsUpper(text) /\ WordCount(text) > 1 THEN CapsBonus ELSE 0)
                + (IF numbered THEN NumberingBonus ELSE 0)
                + (IF page_top THEN PageTopBonus ELSE 0)
            damped == IF IsSurrounded(line, all_lines_, index)
                      THEN (additive * 3) \div 10 ELSE additive
            boosted == IF ~numbered /\ line.page_num = 0
                       THEN (damped * 3) \div 2 ELSE damped
        IN  [score |-> boosted, is_title_candidate |-> ~numbered])

\* index is 1-based here: the program's index + 1.
score_line_as_heading(line, features_, all_lines_, index) ==
    IF IsRejected(line.text)
    THEN [score |-> 0, is_title_candidate |-> FALSE]
    ELSE ScoreGiven(line, features_, all_lines_, index,
                    IsPageTop(line, all_lines_, index))

----------------------------------------------------------------------------
(* Title selection and hierarchy building *)

Untitled == <<"U", "n", "t", "i", "t", "l", "e", "d", " ",
              "D", "o", "c", "u", "m", "e", "n", "t">>

\* The subsequence of the indexes 1..n that satisfy keep, in order.
RECURSIVE FilterIndexes(_, _)
FilterIndexes(n, keep) ==
    IF n = 0 THEN <<>>
    ELSE IF n \in keep THEN Append(FilterIndexes(n - 1, keep), n)
    ELSE FilterIndexes(n - 1, keep)

Range(s) == {s[i] : i \in 1..Len(s)}

\* max(seq, key=...): the first element of seq with the largest key.
FirstMax(seq, key(_)) ==
    seq[Min({i \in 1..Len(seq) : \A j \in 1..Len(seq) : key(seq[j]) <= key(seq[i])})]

find_fallback_title(lines_) ==
    LET first_page_lines == FilterIndexes(Len(lines_),
                                {i \in 1..Len(lines_) : lines_[i].page_num = 0})
        size(i) == lines_[i].style[1]
    IN  IF first_page_lines = <<>> THEN Untitled
        ELSE lines_[FirstMax(first_page_lines, size)].text

\* The (score, is_title_candidate) pair of every line.
LineScores(lines_, features_) ==
    [i \in 1..Len(lines_) |-> score_line_as_heading(lines_[i], features_, lines_, i)]

\* The lines kept as scored candidates, as indexes into lines.
ScoredLines(lines_, scores) ==
    FilterIndexes(Len(lines_), {i \in 1..Len(lines_) : scores[i].score > Threshold})

\* The flagged candidates only, without the first-page fallback.
TitleCandidatesFlaggedOnly(lines_, scores, scored) ==
    FilterIndexes(Len(lines_), {i \in Range(scored) : scores[i].is_title_candidate})

\* title_candidates: the flagged candidates, else the candidates of page 0.
TitleCandidates(lines_, scores, scored) ==
    LET flagged == FilterIndexes(Len(lines_),
                       {i \in Range(scored) : scores[i].is_title_candidate})
    IN  IF flagged # <<>> THEN flagged
        ELSE FilterIndexes(Len(lines_), {i \in Range(scored) : lines_[i].page_num = 0})

\* Nothing removed: the title line stays a candidate.
RemoveTitleKeepsAll(lines_, scored, t) == scored

\* The title removed by position only (is not), equal lines kept.
RemoveTitleByIdentity(lines_, scored, t) ==
    FilterIndexes(Len(lines_), {i \in Range(scored) : i # t})

\* [sl for sl in scored_lines if sl['line'] != title_sl['line']]: the
\* comparison is that of two dicts, by value.
RemoveTitle(lines_, scored, t) ==
    FilterIndexes(Len(lines_), {i \in Range(scored) : lines_[i] # lines_[t]})

\* style_groups.keys(): the distinct styles in order of first appearance.
StyleKeys(lines_, cands) ==
    LET style(p) == lines_[cands[p]].style
    IN  Let(FilterIndexes(Len(cands),
                {p \in 1..Len(cands) : \A q \in 1..(p - 1) : style(q) # style(p)}),
            LAMBDA firsts : [k \in 1..Len(firsts) |-> style(firsts[k])])

\* The keys as they come, neither sorted nor reversed.
SortedStylesUnsorted(keys) == keys

\* The sort key (s[0], 'bold' in s[1].lower()) of a style.
StyleSortKey(style) == [size |-> style[1], bold |-> IsBoldFont(style[2])]

\* Sort keys compared as Python compares tuples, False < True.
StyleKeyLess(a, b) ==
    \/ a.size < b.size
    \/ a.size = b.size /\ ~a.bold /\ b.bold

\* sorted(keys, key=..., reverse=True): descending, equal keys in their
\* original order.
SortedStyles(keys) ==
    Let([i \in 1..Len(keys) |-> StyleSortKey(keys[i])], LAMBDA sort_key :
    Let([i \in 1..Len(keys) |->
            Cardinality({j \in 1..Len(keys) :
                \/ StyleKeyLess(sort_key[i], sort_key[j])
                \/ ~StyleKeyLess(sort_key[j], sort_key[i]) /\ j < i}) + 1],
        LAMBDA rank :
            [p \in 1..Len(keys) |-> keys[CHOOSE i \in 1..Len(keys) : rank[i] = p]]))

MaxLevels == 3

\* level_map: the first three sorted styles, as style -> level number.
LevelOf(sorted_styles, style) ==
    LET at == {p \in 1..Len(sorted_styles) : p <= MaxLevels /\ sorted_styles[p] = style}
    IN  IF at = {} THEN 0 ELSE Min(at)

\* The entries appended in the loop over outline_candidates, with y_pos
\* and (for reference) the index of the line each one comes from.
BuildEntries(lines_, cands, sorted_styles) ==
    Let([p \in 1..Len(cands) |-> LevelOf(sorted_styles, lines_[cands[p]].style)],
        LAMBDA level :
    Let(FilterIndexes(Len(cands), {p \in 1..Len(cands) : level[p] # 0}),
        LAMBDA mapped :
            [k \in 1..Len(mapped) |->
                LET i == cands[mapped[k]]
                IN  [level |-> level[mapped[k]], text |-> lines_[i].text,
                     page |-> lines_[i].page_num + 1,
                     y_pos |-> lines_[i].bbox.y0, line |-> i]]))

\* (x['page'], x['y_pos']) compared as tuples.
EntryKeyLess(a, b) ==
    \/ a.page < b.page
    \/ a.page = b.page /\ a.y_pos < b.y_pos

\* The entries left in the order of the candidates, the final sort omitted.
SortEntriesOmitted(entries) == entries

\* outline.sort(key=lambda x: (x['page'], x['y_pos'])): ascending, stable.
SortEntries(entries) ==
    Let([i \in 1..Len(entries) |->
            Cardinality({j \in 1..Len(entries) :
                \/ EntryKeyLess(entries[j], entries[i])
                \/ ~EntryKeyLess(entries[i], entries[j]) /\ j < i}) + 1],
        LAMBDA rank :
            [p \in 1..Len(entries) |-> entries[CHOOSE i \in 1..Len(entries) : rank[i] = p]])

LevelNames == <<"H1", "H2", "H3">>

\* The entry as returned, after del item['y_pos'].
OutlineEntry(e) == [level |-> LevelNames[e.level], text |-> e.text, page |-> e.page]

\* The fallback title given for an empty document.
EmptyDocumentFallback == Untitled

\* if not lines: return "", []
EmptyDocumentTitle == <<>>

NoScores == <<>>

\* The part of analyze_document_structure after the title is settled:
\* grouping by style, levels, entries, sort.
BuildOutline(lines_, candidates) ==
    Let(SortedStyles(StyleKeys(lines_, candidates)), LAMBDA sorted_styles :
    Let(SortEntries(BuildEntries(lines_, candidates, sorted_styles)), LAMBDA entries :
        [outline |-> [p \in 1..Len(entries) |-> OutlineEntry(entries[p])],
         outline_lines |-> [p \in 1..Len(entries) |-> entries[p].line]]))

\* The index of the line chosen as title among the scored candidates, 0
\* when there is no title candidate.
SelectTitle(lines_, scores, scored) ==
    Let(TitleCandidates(lines_, scores, scored), LAMBDA title_candidates :
        IF title_candidates # <<>>
        THEN FirstMax(title_candidates, LAMBDA i : scores[i].score)
        ELSE 0)

\* analyze_document_structure, with the values of its locals at the return.
analyze_document_structure(lines_, features_) ==
    IF lines_ = <<>>
    THEN [line_scores |-> NoScores, scored_lines |-> <<>>, title_sl |-> 0,
          outline_candidates |-> <<>>, title_text |-> EmptyDocumentTitle,
          outline |-> <<>>, outline_lines |-> <<>>]
    ELSE
    Let(LineScores(lines_, features_), LAMBDA scores :
    Let(ScoredLines(lines_, scores), LAMBDA scored :
        IF scored = <<>>
        THEN [line_scores |-> scores, scored_lines |-> <<>>, title_sl |-> 0,
              outline_candidates |-> <<>>, title_text |-> find_fallback_title(lines_),
              outline |-> <<>>, outline_lines |-> <<>>]
        ELSE
        Let(SelectTitle(lines_, scores, scored), LAMBDA t :
        Let(IF t # 0 THEN RemoveTitle(lines_, scored, t) ELSE scored, LAMBDA candidates :
        Let(BuildOutline(lines_, candidates), LAMBDA built :
            [line_scores |-> scores, scored_lines |-> scored, title_sl |-> t,
             outline_candidates |-> candidates,
             title_text |-> IF t # 0 THEN lines_[t].text ELSE find_fallback_title(lines_),
             outline |-> built.outline, outline_lines |-> built.outline_lines])))))

----------------------------------------------------------------------------
(* Specifications of the analysis: analyze_document_structure applied to   *)
(* a line sequence in page order                                           *)

MaxLines == 3
MaxStyledLines == 5
NumPages == 2

Arial == <<"A", "r", "i", "a", "l">>
ArialBold == <<"A", "r", "i", "a", "l", "-", "B", "o", "l", "d">>
Times == <<"T", "i", "m", "e", "s">>
DefaultFont == <<"d", "e", "f", "a", "u", "l", "t">>

TxtIntro == <<"1", ".", " ", "I", "n", "t", "r", "o">>
TxtOverview == <<"O", "v", "e", "r", "v", "i", "e", "w">>
TxtBullet == <<"-", " ", "i", "t", "e", "m">>

Line(text, style, page_num, y0) ==
    [text |-> text, style |-> style, page_num |-> page_num, bbox |-> [y0 |-> y0]]

\* Lines with the page number left open.
LineShapes(texts, styles, ys) ==
    {[text |-> text, style |-> style, y0 |-> y0] :
        text \in texts, style \in styles, y0 \in ys}

\* Page numbers of k lines in ascending order, as the extraction loop
\* produces them.
PageNumbers(k, num_pages) ==
    {pn \in [1..k -> 0..(num_pages - 1)] : \A i \in 1..(k - 1) : pn[i] <= pn[i + 1]}

\* Numbered lines and title-like lines in a heading style and in the body
\* style, and a bullet line in the heading style.
MixedShapes ==
    LineShapes({TxtIntro}, {<<18, ArialBold>>, <<10, Arial>>}, {100, 200})
    \cup LineShapes({TxtOverview}, {<<18, ArialBold>>}, {100, 200})
    \cup LineShapes({TxtOverview}, {<<10, Arial>>}, {100})
    \cup LineShapes({TxtBullet}, {<<18, ArialBold>>}, {100})

\* Numbered lines in four styles, two of them equal in (size, bold), the
\* largest style at two heights of the page.
StyledShapes ==
    LineShapes({TxtIntro}, {<<18, ArialBold>>}, {100, 200})
    \cup LineShapes({TxtIntro}, {<<14, ArialBold>>, <<14, Arial>>, <<14, Times>>}, {100})

DefaultFeatures == [body_size |-> 10, body_font |-> DefaultFont]

AnaIdle ==
    /\ lines = <<>>
    /\ features = DefaultFeatures
    /\ pc = "idle"
    /\ line_scores = <<>>
    /\ scored_lines = <<>>
    /\ title_sl = 0
    /\ outline_candidates = <<>>
    /\ title_text = <<>>
    /\ outline = <<>>
    /\ outline_lines = <<>>

\* A line sequence of at most n lines is given to the analysis.
AnaReady(shapes, n, num_pages) ==
    /\ \E k \in 0..n : \E shape \in [1..k -> shapes] : \E pn \in PageNumbers(k, num_pages) :
          lines = [i \in 1..k |-> Line(shape[i].text, shape[i].style, pn[i], shape[i].y0)]
    /\ features = DefaultFeatures
    /\ pc = "ready"
    /\ line_scores = <<>>
    /\ scored_lines = <<>>
    /\ title_sl = 0
    /\ outline_candidates = <<>>
    /\ title_text = <<>>
    /\ outline = <<>>
    /\ outline_lines = <<>>

Analyze ==
    /\ pc = "ready"
    /\ \E r \in {analyze_document_structure(lines, features)} :
           /\ line_scores' = r.line_scores
           /\ scored_lines' = r.scored_lines
           /\ title_sl' = r.title_sl
           /\ outline_candidates' = r.outline_candidates
           /\ title_text' = r.title_text
           /\ outline' = r.outline
           /\ outline_lines' = r.outline_lines
    /\ pc' = "done"
    /\ UNCHANGED <<lines, features, normVars, extVars, batchVars>>

----------------------------------------------------------------------------
(* Header/footer filter and document features: the second pass of         *)
(* get_document_lines_and_features.  The dicts of raw_lines_by_page are    *)
(* shared with all_lines, so all_lines holds references <<page, position>> *)
(* and line_data['text'] = ... updates raw_lines_by_page in place.         *)

MarginTolerance == 10

\* is_likely_footer_or_header(line, page, all_lines_by_page); page is the
\* page's number and height is page.rect.height.
is_likely_footer_or_header(line, page, height, all_lines_by_page) ==
    LET y_pos == line.bbox.y0
        text == line.text
        Close(other_line) ==
            LET d == y_pos - other_line.bbox.y0
            IN  (IF d < 0 THEN -d ELSE d) < MarginTolerance
    IN  /\ (10 * y_pos < height \/ 10 * y_pos > 9 * height)
        /\ \E p_num \in DOMAIN all_lines_by_page :
              /\ p_num # page
              /\ \E k \in 1..Len(all_lines_by_page[p_num]) :
                    /\ text = all_lines_by_page[p_num][k].text
                    /\ Close(all_lines_by_page[p_num][k])

\* The order in which the second pass visits the raw lines.
RECURSIVE VisitOrder(_, _)
VisitOrder(raw, n) ==
    IF n = 0 THEN <<>>
    ELSE VisitOrder(raw, n - 1) \o [i \in 1..Len(raw[n - 1]) |-> <<n - 1, i>>]

\* One iteration of the inner loop: the line at ref is tested against the
\* current contents of raw_lines_by_page, then cleaned in place and kept.
FilterLine(st, heights, ref) ==
    LET page == ref[1]
        line_data == st.raw[page][ref[2]]
    IN  IF is_likely_footer_or_header(line_data, page, heights[page], st.raw)
        THEN st
        ELSE Let(clean_text(line_data.text), LAMBDA cleaned :
                [raw |-> [st.raw EXCEPT ![page][ref[2]].text = cleaned],
                 all |-> IF cleaned # <<>> THEN Append(st.all, ref) ELSE st.all])

RECURSIVE SecondPass(_, _, _, _)
SecondPass(raw, heights, visits, k) ==
    IF k = 0 THEN [raw |-> raw, all |-> <<>>]
    ELSE Let(SecondPass(raw, heights, visits, k - 1),
             LAMBDA st : FilterLine(st, heights, visits[k]))

\* Counter(body_styles).most_common(1)[0][0]: the most frequent element,
\* the earliest one among equals.
MostCommon(seq) ==
    LET count(x) == Cardinality({i \in 1..Len(seq) : seq[i] = x})
        best == {i \in 1..Len(seq) : \A j \in 1..Len(seq) : count(seq[j]) <= count(seq[i])}
    IN  seq[Min(best)]

\* doc_features of the kept lines.
DocFeatures(kept) ==
    Let(FilterIndexes(Len(kept), {i \in 1..Len(kept) :
            /\ WordCount(kept[i].text) > 5
            /\ WordCount(kept[i].text) < 20
            /\ ~IsUpper(kept[i].text)}),
        LAMBDA body :
            IF body = <<>> THEN DefaultFeatures
            ELSE Let(MostCommon([i \in 1..Len(body) |-> kept[body[i]].style]),
                     LAMBDA style : [body_size |-> style[1], body_font |-> style[2]]))

\* The line dicts all_lines refers to.
Deref(raw, refs) == [k \in 1..Len(refs) |-> raw[refs[k][1]][refs[k][2]]]

\* First pass: the lines of every page, blank ones skipped
\* (if not line_text.strip(): continue).
FirstPass(doc) ==
    [p \in DOMAIN doc |->
        LET ls == doc[p].lines
            kept == FilterIndexes(Len(ls), {i \in 1..Len(ls) : Strip(ls[i].text) # <<>>})
        IN  [i \in 1..Len(kept) |-> ls[kept[i]]]]

\* get_document_lines_and_features: raw is raw_lines_by_page at the return,
\* all the references of all_lines, features the doc_features.
get_document_lines_and_features(doc) ==
    Let(FirstPass(doc), LAMBDA raw :
    Let(VisitOrder(raw, Cardinality(DOMAIN doc)), LAMBDA visits :
    Let(SecondPass(raw, [p \in DOMAIN doc |-> doc[p].height], visits, Len(visits)),
        LAMBDA st :
            [raw |-> st.raw, all |-> st.all,
             features |-> DocFeatures(Deref(st.raw, st.all))])))

NumDocPages == 2
MaxPageLines == 2
PageHeight == 800

TxtHeaderSpaced == <<"C", " ", " ", "D">>
TxtHeader == <<"C", " ", "D">>
TxtProse == <<"a", " ", "b", " ", "c", " ", "d", " ", "e", " ", "f">>
TxtBlank == <<" ">>

\* Lines as the first pass reads them off a page, page number left open.
RawLineShapes ==
    {[text |-> text, style |-> <<9, Arial>>, y0 |-> y0] :
        text \in {TxtHeaderSpaced, TxtHeader}, y0 \in {20, 400}}
    \cup {[text |-> TxtProse, style |-> style, y0 |-> 400] :
        style \in {<<10, Arial>>, <<12, Times>>}}
    \cup {[text |-> TxtBlank, style |-> <<9, Arial>>, y0 |-> 400]}

Page(p, shapes) ==
    [height |-> PageHeight,
     lines |-> [i \in 1..Len(shapes) |->
                   Line(shapes[i].text, shapes[i].style, p, shapes[i].y0)]]

\* The line sequences one page may hold.
RawPages == UNION {[1..k -> RawLineShapes] : k \in 0..MaxPageLines}

ExtIdle ==
    /\ pages = <<>>
    /\ raw_lines_by_page = <<>>
    /\ all_lines = <<>>
    /\ doc_features = DefaultFeatures
    /\ ext_pc = "idle"

GetDocumentLinesAndFeatures ==
    /\ ext_pc = "ready"
    /\ \E r \in {get_document_lines_and_features(pages)} :
           /\ raw_lines_by_page' = r.raw
           /\ all_lines' = r.all
           /\ doc_features' = r.features
    /\ ext_pc' = "done"
    /\ UNCHANGED <<pages, normVars, anaVars, batchVars>>

----------------------------------------------------------------------------
(* Per-document orchestration and the batch loop *)

ErrorTitle == <<"E", "r", "r", "o", "r", " ", "p", "r", "o", "c", "e", "s", "s",
                "i", "n", "g", " ", "f", "i", "l", "e">>
Sentinel == [title |-> ErrorTitle, outline |-> <<>>]
Ellipsis == <<".", ".", ".">>

\* The body of the try block.  A file is [name, fault, doc]; fault says
\* where the processing of this file raises, if anywhere.
ProcessBody(file) ==
    IF file.fault \in {"extraction", "analysis"}
    THEN [raised |-> TRUE, value |-> Sentinel]
    ELSE
    Let(get_document_lines_and_features(file.doc), LAMBDA ext :
    Let(analyze_document_structure(Deref(ext.raw, ext.all), ext.features), LAMBDA r :
    Let(Split(r.title_text), LAMBDA title_words :
        LET title == IF Len(r.outline) = 0 /\ Len(title_words) > 15
                     THEN Join(SubSeq(title_words, 1, 8))
                          \o (IF Len(title_words) > 8 THEN Ellipsis ELSE <<>>)
                     ELSE r.title_text
        IN  [raised |-> FALSE,
             value |-> [title |-> Strip(title), outline |-> r.outline]])))

\* The body without the try block: an exception leaves process_pdf.
process_pdf_uncaught(file) == ProcessBody(file)

\* try: ... except Exception: return the sentinel
process_pdf(file) ==
    Let(ProcessBody(file), LAMBDA body :
        IF body.raised THEN [raised |-> FALSE, value |-> Sentinel] ELSE body)

DotPdf == <<".", "p", "d", "f">>
DotJson == <<".", "j", "s", "o", "n">>

\* s.endswith(suffix)
EndsWith(s, suffix) ==
    Len(s) >= Len(suffix) /\ SubSeq(s, Len(s) - Len(suffix) + 1, Len(s)) = suffix

\* filename.lower().endswith(".pdf")
IsPdfName(filename) == EndsWith(Lower(filename), DotPdf)

\* os.path.splitext(filename)[0] + ".json": the extension starts at the
\* last dot, unless the name has no dot past its leading ones.
OutputFilename(filename) ==
    LET lead == SkipWhile(filename, 1, {"."})
        dot == SkipBackWhile(filename, Len(filename), Letters \cup Digits)
    IN  (IF dot > lead /\ filename[dot] = "." THEN SubSeq(filename, 1, dot - 1)
         ELSE filename) \o DotJson

MaxFiles == 3

FileNames == << <<"a", ".", "p", "d", "f">>, <<"b", ".", "P", "D", "F">>,
                <<"c", ".", "t", "x", "t">>, <<"d", ".", "p", "d", "f">> >>

\* Sixteen words, more than any heading may have.
TxtFlyer == [i \in 1..31 |-> IF i % 2 = 1 THEN "a" ELSE " "]

DocBlank == <<>> @@ (0 :> Page(0, <<>>))
DocHeadings ==
    <<>> @@ (0 :> Page(0, << [text |-> TxtOverview, style |-> <<18, ArialBold>>, y0 |-> 100],
                              [text |-> TxtIntro, style |-> <<18, ArialBold>>, y0 |-> 200] >>))
DocFlyer ==
    <<>> @@ (0 :> Page(0, << [text |-> TxtFlyer, style |-> <<10, Arial>>, y0 |-> 100] >>))

FileContents ==
    {[fault |-> "none", doc |-> d] : d \in {DocBlank, DocHeadings, DocFlyer}}
    \cup {[fault |-> f, doc |-> DocHeadings] : f \in {"extraction", "analysis"}}

\* sorted(os.listdir(input_dir)): the names of present, in ascending
\* order, each with its content.
Listing(present, content) ==
    LET order == FilterIndexes(MaxFiles, present)
    IN  [k \in 1..Cardinality(present) |->
            [name |-> FileNames[order[k]], fault |-> content[order[k]].fault,
             doc |-> content[order[k]].doc]]

BatchIdle ==
    /\ files = <<>>
    /\ next_file = 1
    /\ outputs = <<>>
    /\ batch_pc = "idle"

\* One iteration of the loop for a file named *.pdf: process_pdf, then
\* json.dump of its result; an exception leaving process_pdf ends the loop.
ProcessPdfFile ==
    /\ batch_pc = "running"
    /\ next_file <= Len(files)
    /\ IsPdfName(files[next_file].name)
    /\ \E result \in {process_pdf(files[next_file])} :
           IF result.raised
           THEN /\ batch_pc' = "aborted"
                /\ UNCHANGED <<next_file, outputs>>
           ELSE /\ outputs' = Append(outputs,
                        [path |-> OutputFilename(files[next_file].name),
                         result |-> result.value])
                /\ next_file' = next_file + 1
                /\ batch_pc' = IF next_file = Len(files) THEN "finished" ELSE "running"
    /\ UNCHANGED <<files, normVars, extVars, anaVars>>

\* One iteration of the loop for any other file name.
SkipOtherFile ==
    /\ batch_pc = "running"
    /\ next_file <= Len(files)
    /\ ~IsPdfName(files[next_file].name)
    /\ next_file' = next_file + 1
    /\ batch_pc' = IF next_file = Len(files) THEN "finished" ELSE "running"
    /\ UNCHANGED <<files, outputs, normVars, extVars, anaVars>>

----------------------------------------------------------------------------
(* Specifications *)

\* clean_text applied to every string of at most MaxStrLen characters.
InitClean ==
    /\ norm_history \in {<<s>> : s \in Strings(MaxStrLen)}
    /\ ExtIdle /\ AnaIdle /\ BatchIdle
NextClean == CleanText
SpecClean == InitClean /\ [][NextClean]_vars

\* The extraction filter applied to every raw document of the pool.
InitExtract ==
    /\ \E shape \in [0..(NumDocPages - 1) -> RawPages] :
          pages = [p \in 0..(NumDocPages - 1) |-> Page(p, shape[p])]
    /\ raw_lines_by_page = <<>>
    /\ all_lines = <<>>
    /\ doc_features = DefaultFeatures
    /\ ext_pc = "ready"
    /\ NormIdle /\ AnaIdle /\ BatchIdle
NextExtract == GetDocumentLinesAndFeatures
SpecExtract == InitExtract /\ [][NextExtract]_vars

\* The analysis applied to mixed documents of up to MaxLines lines.
InitAnalyze == AnaReady(MixedShapes, MaxLines, NumPages) /\ NormIdle /\ ExtIdle /\ BatchIdle
NextAnalyze == Analyze
SpecAnalyze == InitAnalyze /\ [][NextAnalyze]_vars

\* The analysis applied to documents of up to MaxStyledLines numbered lines in
\* four styles on one page.
InitLevels == AnaReady(StyledShapes, MaxStyledLines, 1) /\ NormIdle /\ ExtIdle /\ BatchIdle
SpecLevels == InitLevels /\ [][NextAnalyze]_vars

\* The batch loop over every listing of the pool.
InitBatch ==
    /\ \E present \in SUBSET (1..MaxFiles) : \E content \in [present -> FileContents] :
          files = Listing(present, content)
    /\ next_file = 1
    /\ outputs = <<>>
    /\ batch_pc = IF files = <<>> THEN "finished" ELSE "running"
    /\ NormIdle /\ ExtIdle /\ AnaIdle
NextBatch == ProcessPdfFile \/ SkipOtherFile
SpecBatch == InitBatch /\ [][NextBatch]_vars

Init == InitAnalyze
Next == NextAnalyze
Spec == SpecAnalyze

----------------------------------------------------------------------------
(* Properties of the analysis *)

Done == pc = "done"

LineOf(p) == lines[outline_lines[p]]

\* C1: the returned outline is ordered by page ascending and, within a
\* page, by the top coordinate y0 of the line each entry was made from.
C1_OutlineOrdered ==
    Done =>
        /\ Len(outline_lines) = Len(outline)
        /\ \A p \in 1..Len(outline) : outline[p].page = LineOf(p).page_num + 1
        /\ \A p \in 1..(Len(outline) - 1) :
              \/ outline[p].page < outline[p + 1].page
              \/ /\ outline[p].page = outline[p + 1].page
                 /\ LineOf(p).bbox.y0 <= LineOf(p + 1).bbox.y0

\* The final sort had to move an entry: the candidates were met in another
\* order than the one returned.
C1_Witness ==
    /\ Done
    /\ \E p \in 1..(Len(outline) - 1) :
          /\ outline_lines[p] > outline_lines[p + 1]
          /\ outline[p].page = outline[p + 1].page
          /\ LineOf(p).bbox.y0 < LineOf(p + 1).bbox.y0

\* C2: when the title is selected from the scored candidates, no entry of
\* the outline comes from the selected title line.
C2_TitleExcluded ==
    (Done /\ title_sl # 0) =>
        /\ title_text = lines[title_sl].text
        /\ \A p \in 1..Len(outline) : outline_lines[p] # title_sl
        /\ title_sl \notin Range(outline_candidates)

\* A title was selected whose style has a level in the outline, so the
\* title line would have had an entry had it stayed a candidate.
C2_Witness ==
    /\ Done
    /\ title_sl # 0
    /\ \E p \in 1..Len(outline) : LineOf(p).style = lines[title_sl].style

BoldRank(style) == IF IsBoldFont(style[2]) THEN 1 ELSE 0

\* Style a is above style b by (font size, is-bold).
KeyAbove(a, b) ==
    \/ a[1] > b[1]
    \/ a[1] = b[1] /\ BoldRank(a) > BoldRank(b)
CandidateStyles == {lines[i].style : i \in Range(outline_candidates)}
OutlineStyles == {lines[i].style : i \in Range(outline_lines)}
LevelNumber(level) == CHOOSE k \in 1..3 : LevelNames[k] = level

\* C3: the outline holds entries of at most 3 distinct styles, the 3
\* highest by (font size, is-bold) among the candidates' styles, labelled
\* H1, H2, H3 in that order; a candidate of any other style is absent and
\* every level is one of H1, H2, H3.
C3_LevelCap ==
    Done =>
        \A kept \in {OutlineStyles} :
        /\ Cardinality(kept) <= 3
        /\ Cardinality(kept) = Min({3, Cardinality(CandidateStyles)})
        /\ \A p \in 1..Len(outline) : outline[p].level \in {"H1", "H2", "H3"}
        /\ {LevelNumber(outline[p].level) : p \in 1..Len(outline)} = 1..Cardinality(kept)
        /\ \A p, q \in 1..Len(outline) :
              (outline[p].level = outline[q].level) <=> (LineOf(p).style = LineOf(q).style)
        /\ \A a, b \in kept :
              KeyAbove(a, b) =>
                  \A p, q \in 1..Len(outline) :
                      (LineOf(p).style = a /\ LineOf(q).style = b)
                          => LevelNumber(outline[p].level) < LevelNumber(outline[q].level)
        /\ \A i \in Range(outline_candidates) :
              \/ i \in Range(outline_lines)
              \/ /\ lines[i].style \notin kept
                 /\ Cardinality(kept) = 3
                 /\ \A style \in kept : ~KeyAbove(lines[i].style, style)

\* Candidates of four styles or more: three levels are used and a
\* candidate is dropped.
C3_Witness ==
    /\ Done
    /\ title_sl # 0
    /\ Cardinality(CandidateStyles) >= 4
    /\ {outline[p].level : p \in 1..Len(outline)} = {"H1", "H2", "H3"}
    /\ \E i \in Range(outline_candidates) : i \notin Range(outline_lines)

\* C5 (as claimed): an empty line sequence gives an empty outline and the
\* title "Untitled Document".
C5_Original ==
    (Done /\ lines = <<>>) => (title_text = Untitled /\ outline = <<>>)

\* C5 (amended): an empty line sequence gives an empty outline and the
\* empty string as title; the fallback chain is not consulted.
C5_EmptyDocument ==
    (Done /\ lines = <<>>) => (title_text = <<>> /\ outline = <<>>)

C5_Witness == Done /\ lines = <<>> /\ outline = <<>>

\* A single-page document whose only scored candidate is a numbered line.
OnlyNumberedCandidate ==
    /\ Done
    /\ lines # <<>>
    /\ \A i \in 1..Len(lines) : lines[i].page_num = 0
    /\ Len(scored_lines) = 1
    /\ IsNumbered(lines[scored_lines[1]].text)

\* C6 (as claimed): in such a document the outline contains the entry
\* {H1, the line's text, page 1} and the title is the largest-font line of
\* the first page.
C6_Original ==
    OnlyNumberedCandidate =>
        /\ \E p \in 1..Len(outline) :
              outline[p] = [level |-> "H1", text |-> lines[scored_lines[1]].text, page |-> 1]
        /\ title_text = find_fallback_title(lines)

\* C6 (amended): in such a document the numbered line is itself taken as
\* the title, being the best scored candidate of the first page, and is
\* removed from the candidates: the title is its text and the outline is
\* empty.
C6_NumberedLineBecomesTitle ==
    OnlyNumberedCandidate =>
        /\ title_sl = scored_lines[1]
        /\ title_text = lines[scored_lines[1]].text
        /\ outline = <<>>

\* The scenario: a bold size-18 "1. Intro" after and before size-10 prose.
C6_Witness ==
    /\ OnlyNumberedCandidate
    /\ Len(lines) = 3
    /\ lines[2] = Line(TxtIntro, <<18, ArialBold>>, 0, 200)
    /\ lines[1] = Line(TxtOverview, <<10, Arial>>, 0, 100)
    /\ lines[3].style = <<10, Arial>>
    /\ features.body_size = 10

\* Line i is the first line of its page.
FirstOfPage(i) == i = 1 \/ lines[i].page_num # lines[i - 1].page_num

\* C9: every non-rejected line that is the first line of its page, the
\* first line of the document included, has the page-top bonus in its score.
C9_PageTopBonus ==
    Done =>
        \A i \in 1..Len(lines) :
            (~IsRejected(lines[i].text) /\ FirstOfPage(i)) =>
                line_scores[i] = ScoreGiven(lines[i], features, lines, i, TRUE)

\* C10 (as claimed): the outline candidates are the scored candidates
\* minus the one chosen line.
C10_Original ==
    (Done /\ title_sl # 0) =>
        Range(outline_candidates) = Range(scored_lines) \ {title_sl}

\* C10 (amended): the title line is excluded by value: the outline
\* candidates are, in order, the scored candidates whose line differs from
\* the title line in text, style, page number or bounding box; a candidate
\* equal to the title line in all four is excluded with it.
C10_ExcludedByValue ==
    (Done /\ title_sl # 0) =>
        /\ Range(outline_candidates) =
              {i \in Range(scored_lines) :
                  \/ lines[i].text # lines[title_sl].text
                  \/ lines[i].style # lines[title_sl].style
                  \/ lines[i].page_num # lines[title_sl].page_num
                  \/ lines[i].bbox # lines[title_sl].bbox}
        /\ \A p \in 1..(Len(outline_candidates) - 1) :
              outline_candidates[p] < outline_candidates[p + 1]

\* A second scored candidate equal to the title line is dropped while a
\* different one stays.
C10_Witness ==
    /\ Done
    /\ title_sl # 0
    /\ \E i \in Range(scored_lines) : i # title_sl /\ lines[i] = lines[title_sl]
    /\ outline_candidates # <<>>

----------------------------------------------------------------------------
(* Properties of the batch loop *)

\* The *.pdf files the loop has been through, as positions in files.
ProcessedPdfs ==
    FilterIndexes(Len(files),
        {i \in 1..Len(files) : i < next_file /\ IsPdfName(files[i].name)})

\* C4: the loop never aborts; every document it has been through has
\* exactly one result, written in order, the sentinel for a document whose
\* extraction or analysis failed; and the loop stops only after the last
\* file.
C4_OneResultPerDocument ==
    /\ batch_pc \in {"idle", "running", "finished"}
    /\ batch_pc = "running" => next_file <= Len(files)
    /\ batch_pc = "finished" => next_file = Len(files) + 1
    /\ \A pdfs \in {ProcessedPdfs} :
          /\ Len(outputs) = Len(pdfs)
          /\ \A k \in 1..Len(pdfs) :
                /\ outputs[k].path = OutputFilename(files[pdfs[k]].name)
                /\ files[pdfs[k]].fault # "none" => outputs[k].result = Sentinel

\* The loop has finished a listing in which a document failed and a later
\* one was processed to a proper result.
C4_Witness ==
    /\ batch_pc = "finished"
    /\ \E k, m \in 1..Len(outputs) :
          /\ k < m
          /\ files[ProcessedPdfs[k]].fault # "none"
          /\ outputs[k].result = Sentinel
          /\ outputs[m].result # Sentinel
          /\ outputs[m].result.outline # <<>>

----------------------------------------------------------------------------
(* Properties of the extraction filter and of the normalizer *)

\* The lines of the first pass, before any cleaning.
ExtractedLines == FirstPass(pages)
ExtractedRefs ==
    {ref \in (DOMAIN pages) \X (1..MaxPageLines) :
        ref[2] <= Len(ExtractedLines[ref[1]])}

InMargin(ref) ==
    LET y == ExtractedLines[ref[1]][ref[2]].bbox.y0
        h == pages[ref[1]].height
    IN  10 * y < h \/ 10 * y > 9 * h

Repeaters(a, b) ==
    LET la == ExtractedLines[a[1]][a[2]]
        lb == ExtractedLines[b[1]][b[2]]
        d == la.bbox.y0 - lb.bbox.y0
    IN  /\ a[1] # b[1]
        /\ InMargin(a) /\ InMargin(b)
        /\ clean_text(la.text) = clean_text(lb.text)
        /\ d < MarginTolerance /\ -d < MarginTolerance

\* C7: lines on different pages, each in the top or bottom tenth of its
\* page, with identical cleaned text and top coordinates less than 10
\* apart, are all removed by the filter, never one kept.
C7_RepeaterSymmetry ==
    ext_pc = "done" =>
        \A a, b \in ExtractedRefs :
            Repeaters(a, b) => (a \notin Range(all_lines) /\ b \notin Range(all_lines))

\* C8: clean_text is idempotent, clean_text(clean_text(s)) = clean_text(s).
C8_Idempotent ==
    Len(norm_history) >= 3 => norm_history[3] = norm_history[2]

====
